---- MODULE Spec2Model ----
(***************************************************************************)
(* Expanded-retrieval task graph of onyx agent search:                     *)
(* expand_queries -> doc_retrieval (one per expanded query) ->             *)
(* verification_kickoff -> doc_verification (one per retrieved document)   *)
(* -> doc_reranking -> format_results.                                     *)
(*                                                                         *)
(* Text is modelled as a sequence of one-character strings, so that        *)
(* split, strip, lower and substring search are computed, not assumed.     *)
(***************************************************************************)
EXTENDS Integers, Sequences, FiniteSets, TLC

(***************************************************************************)
(* Bounds of the model.                                                    *)
(***************************************************************************)
\* documents retrieved by all queries of one unit of work
MaxRetrieved == 2

\* Python None for an optional text, and for an optional number
NoneText == [some |-> FALSE, v |-> <<>>]
NoneNum == [some |-> FALSE, v |-> 0]
Some(x) == [some |-> TRUE, v |-> x]

(***************************************************************************)
(* Text helpers (Python str semantics).                                    *)
(***************************************************************************)
s_a == <<"a">>
s_b == <<"b">>
s_q == <<"q">>
s_s == <<"s">>
s_empty == <<>>
s_space == <<" ">>
s_nl == <<"\n">>

IsSpace(c) == c \in {" ", "\n", "\t"}

\* str.strip() == "" : every character is whitespace
IsBlank(s) == \A i \in 1..Len(s) : IsSpace(s[i])

\* index of the first occurrence of character c in s, 0 when absent
RECURSIVE FindChar(_, _, _)
FindChar(s, c, i) ==
    IF i > Len(s) THEN 0
    ELSE IF s[i] = c THEN i
    ELSE FindChar(s, c, i + 1)

\* str.split(sep) for a one-character separator: always at least one piece
RECURSIVE Split(_, _)
Split(s, sep) ==
    LET k == FindChar(s, sep, 1) IN
    IF k = 0 THEN <<s>>
    ELSE <<SubSeq(s, 1, k - 1)>> \o Split(SubSeq(s, k + 1, Len(s)), sep)

LowerChar(c) ==
    CASE c = "Y" -> "y"
      [] c = "E" -> "e"
      [] c = "S" -> "s"
      [] c = "N" -> "n"
      [] c = "O" -> "o"
      [] OTHER -> c

\* str.lower()
Lower(s) == [i \in 1..Len(s) |-> LowerChar(s[i])]

\* sub in s
Contains(s, sub) ==
    \E i \in 1..(Len(s) - Len(sub) + 1) : SubSeq(s, i, i + Len(sub) - 1) = sub

\* concatenation of a list of texts
RECURSIVE Concat(_)
Concat(ss) == IF ss = <<>> THEN <<>> ELSE Head(ss) \o Concat(Tail(ss))

Digit(n) ==
    CASE n = 0 -> "0" [] n = 1 -> "1" [] n = 2 -> "2" [] n = 3 -> "3" [] n = 4 -> "4"
      [] n = 5 -> "5" [] n = 6 -> "6" [] n = 7 -> "7" [] n = 8 -> "8" [] n = 9 -> "9"

DigitValue(c) == CHOOSE n \in 0..9 : Digit(n) = c

\* str(n) for n >= 0
RECURSIVE IntToStr(_)
IntToStr(n) == IF n < 10 THEN <<Digit(n)>> ELSE IntToStr(n \div 10) \o <<Digit(n % 10)>>

\* int(s) for a text of decimal digits
RECURSIVE StrToInt(_)
StrToInt(s) ==
    IF Len(s) = 1 THEN DigitValue(s[1])
    ELSE 10 * StrToInt(SubSeq(s, 1, Len(s) - 1)) + DigitValue(s[Len(s)])

\* sequences over S of length 0..n
SeqsUpTo(S, n) == UNION {[1..k -> S] : k \in 0..n}

Range(f) == {f[i] : i \in DOMAIN f}

SelectSeqBy(s, keep) ==
    LET F[i \in 0..Len(s)] ==
        IF i = 0 THEN <<>>
        ELSE IF s[i] \in keep THEN Append(F[i - 1], s[i]) ELSE F[i - 1]
    IN F[Len(s)]

\* Python slice s[:n]
Truncate(s, n) == SubSeq(s, 1, IF Len(s) < n THEN Len(s) ELSE n)

(***************************************************************************)
(* float values, kept exact as reduced fractions                           *)
(***************************************************************************)
RECURSIVE GCD(_, _)
GCD(a, b) == IF b = 0 THEN a ELSE GCD(b, a % b)

Rat(n, d) == LET g == GCD(n, d) IN IF n = 0 THEN [n |-> 0, d |-> 1] ELSE [n |-> n \div g, d |-> d \div g]

RatZero == Rat(0, 1)

RatAdd(x, y) == Rat(x.n * y.d + y.n * x.d, x.d * y.d)

RatDivInt(x, k) == Rat(x.n, x.d * k)

RECURSIVE SumSeq(_)
SumSeq(s) == IF s = <<>> THEN 0 ELSE Head(s) + SumSeq(Tail(s))

\* np.mean of a non-empty list of scores
Mean(scores) == Rat(SumSeq(scores), Len(scores))

(***************************************************************************)
(* Documents: InferenceSection objects as the backend returns them.        *)
(* The same chunk may come back from two queries with different scores.    *)
(***************************************************************************)
InferenceSection(document_id, chunk_id, score) ==
    [type |-> "InferenceSection", document_id |-> document_id,
     chunk_id |-> chunk_id, score |-> score]

D1 == InferenceSection(<<"A">>, 0, Some(3))
D2 == InferenceSection(<<"A">>, 1, NoneNum)
D3 == InferenceSection(<<"A">>, 0, Some(5))
D4 == InferenceSection(<<"A", "_", "1">>, 0, Some(4))

Corpus == {D1, D2, D3, D4}

\* an entry a reranker may hand back that is no InferenceSection
Malformed == [type |-> "dict", document_id |-> <<"A">>, chunk_id |-> 0, score |-> NoneNum]

\* f"{doc.center_chunk.document_id}_{doc.center_chunk.chunk_id}"
DocChunkId(doc) == doc.document_id \o <<"_">> \o IntToStr(doc.chunk_id)

\* the (document_id, chunk_id) identity of a document
DocKey(doc) == <<doc.document_id, doc.chunk_id>>

QueryResult(query, search_results, stats) ==
    [query |-> query, search_results |-> search_results, stats |-> stats]

(***************************************************************************)
(* _calculate_sub_question_retrieval_stats                                 *)
(***************************************************************************)
\* every document of every QueryResult, in iteration order (the two nested for loops)
RECURSIVE AllSearchResults(_)
AllSearchResults(results) ==
    IF results = <<>> THEN <<>>
    ELSE Head(results).search_results \o AllSearchResults(Tail(results))

\* position of doc_chunk_id among the entries of chunk_scores, 0 when it has none
RECURSIVE ChunkScoreIndex(_, _, _)
ChunkScoreIndex(chunk_scores, doc_chunk_id, i) ==
    IF i > Len(chunk_scores) THEN 0
    ELSE IF chunk_scores[i].doc_chunk_id = doc_chunk_id THEN i
    ELSE ChunkScoreIndex(chunk_scores, doc_chunk_id, i + 1)

\* the loop body: an entry is created only for a document that has a score
RecordScore(chunk_scores, doc) ==
    LET id == DocChunkId(doc)
        k == ChunkScoreIndex(chunk_scores, id, 1)
    IN IF doc.score.some
       THEN IF k = 0
            THEN Append(chunk_scores, [doc_chunk_id |-> id, score |-> <<doc.score.v>>])
            ELSE [chunk_scores EXCEPT ![k].score = Append(@, doc.score.v)]
       ELSE chunk_scores

\* chunk_scores: the insertion-ordered mapping doc_chunk_id -> list of scores
RECURSIVE ChunkScores(_, _)
ChunkScores(docs, chunk_scores) ==
    IF docs = <<>> THEN chunk_scores
    ELSE ChunkScores(Tail(docs), RecordScore(chunk_scores, Head(docs)))

VerifiedDocChunkIds(verified_documents) ==
    [i \in 1..Len(verified_documents) |-> DocChunkId(verified_documents[i])]

\* the loop with every key added to the dismissed ids
RECURSIVE RawChunkStatsAllDismissed(_, _, _)
RawChunkStatsAllDismissed(chunk_scores, verified_ids, raw) ==
    IF chunk_scores = <<>> THEN raw
    ELSE LET e == Head(chunk_scores)
             m == Mean(e.score)
         IN IF e.doc_chunk_id \in Range(verified_ids)
            THEN RawChunkStatsAllDismissed(Tail(chunk_scores), verified_ids,
                    [raw EXCEPT !.verified_count = @ + 1,
                                !.verified_scores = RatAdd(@, m),
                                !.dismissed_doc_chunk_ids = Append(@, e.doc_chunk_id)])
            ELSE RawChunkStatsAllDismissed(Tail(chunk_scores), verified_ids,
                    [raw EXCEPT !.rejected_count = @ + 1,
                                !.rejected_scores = Some(RatAdd(IF @.some THEN @.v ELSE RatZero, m)),
                                !.dismissed_doc_chunk_ids = Append(@, e.doc_chunk_id)])

\* the loop over chunk_scores.items(): counts, score sums and the dismissed ids
RECURSIVE RawChunkStats(_, _, _)
RawChunkStats(chunk_scores, verified_ids, raw) ==
    IF chunk_scores = <<>> THEN raw
    ELSE LET e == Head(chunk_scores)
             m == Mean(e.score)
         IN IF e.doc_chunk_id \in Range(verified_ids)
            THEN RawChunkStats(Tail(chunk_scores), verified_ids,
                    [raw EXCEPT !.verified_count = @ + 1,
                                !.verified_scores = RatAdd(@, m)])
            ELSE RawChunkStats(Tail(chunk_scores), verified_ids,
                    [raw EXCEPT !.rejected_count = @ + 1,
                                !.rejected_scores = Some(RatAdd(IF @.some THEN @.v ELSE RatZero, m)),
                                !.dismissed_doc_chunk_ids = Append(@, e.doc_chunk_id)])

NoneRat == [some |-> FALSE, v |-> RatZero]

\* the rejected average defaulting to 0.0 like the verified one
CalculateSubQuestionRetrievalStatsZeroRejected(verified_documents, expanded_retrieval_results) ==
    LET chunk_scores == ChunkScores(AllSearchResults(expanded_retrieval_results), <<>>)
        verified_doc_chunk_ids == VerifiedDocChunkIds(verified_documents)
        raw == RawChunkStats(chunk_scores, verified_doc_chunk_ids,
                   [verified_count |-> 0, verified_scores |-> RatZero,
                    rejected_count |-> 0, rejected_scores |-> NoneRat,
                    dismissed_doc_chunk_ids |-> <<>>])
    IN [verified_count |-> raw.verified_count,
        verified_avg_scores |->
            IF raw.verified_count = 0 THEN RatZero
            ELSE RatDivInt(raw.verified_scores, raw.verified_count),
        rejected_count |-> raw.rejected_count,
        rejected_avg_scores |->
            IF raw.rejected_count = 0 THEN Some(RatZero)
            ELSE Some(RatDivInt(raw.rejected_scores.v, raw.rejected_count)),
        verified_doc_chunk_ids |-> verified_doc_chunk_ids,
        dismissed_doc_chunk_ids |-> raw.dismissed_doc_chunk_ids]

CalculateSubQuestionRetrievalStats(verified_documents, expanded_retrieval_results) ==
    LET chunk_scores == ChunkScores(AllSearchResults(expanded_retrieval_results), <<>>)
        verified_doc_chunk_ids == VerifiedDocChunkIds(verified_documents)
        raw == RawChunkStats(chunk_scores, verified_doc_chunk_ids,
                   [verified_count |-> 0, verified_scores |-> RatZero,
                    rejected_count |-> 0, rejected_scores |-> NoneRat,
                    dismissed_doc_chunk_ids |-> <<>>])
    IN [verified_count |-> raw.verified_count,
        verified_avg_scores |->
            IF raw.verified_count = 0 THEN RatZero
            ELSE RatDivInt(raw.verified_scores, raw.verified_count),
        rejected_count |-> raw.rejected_count,
        rejected_avg_scores |->
            IF raw.rejected_scores.some
            THEN Some(RatDivInt(raw.rejected_scores.v, raw.rejected_count))
            ELSE NoneRat,
        verified_doc_chunk_ids |-> verified_doc_chunk_ids,
        dismissed_doc_chunk_ids |-> raw.dismissed_doc_chunk_ids]

(***************************************************************************)
(* Collaborators whose code is outside the files at hand                   *)
(***************************************************************************)
\* parse_question_id: "<level>_<question_nr>" -> (level, question_nr)
ParseQuestionId(sub_question_id) ==
    LET parts == Split(sub_question_id, "_")
    IN <<StrToInt(parts[1]), StrToInt(parts[2])>>

\* dispatch_subquery(level, question_nr)(token, num): the SubQueryPiece event
SubQueryPiece(token, level, question_nr, num) ==
    [name |-> "subqueries", sub_query |-> token, level |-> level,
     level_question_nr |-> question_nr, query_id |-> num]

\* the events of one streamed chunk: one per piece between line breaks
PieceEvents(content, level, question_nr, num) ==
    LET pieces == Split(content, "\n")
    IN [k \in 1..Len(pieces) |-> SubQueryPiece(pieces[k], level, question_nr, num + k - 1)]

\* dispatch_separated: emits an event per token and accumulates the streamed
\* text in a buffer that starts empty; num advances at each line break
RECURSIVE DispatchSeparated(_, _, _, _)
DispatchSeparated(chunks, level, question_nr, num) ==
    IF chunks = <<>> THEN [events |-> <<>>, tokens |-> <<s_empty>>]
    ELSE LET ev == PieceEvents(Head(chunks), level, question_nr, num)
             rest == DispatchSeparated(Tail(chunks), level, question_nr, num + Len(ev) - 1)
         IN [events |-> ev \o rest.events,
             tokens |-> <<s_empty, Head(chunks)>> \o Tail(rest.tokens)]

\* langchain merge_message_runs(messages, chunk_separator=""): a run of messages
\* of one type becomes one message; no message at all gives no message
MergeMessageRuns(messages) ==
    IF messages = <<>> THEN <<>> ELSE <<Concat(messages)>>

ScoreOf(doc) == IF doc.score.some THEN doc.score.v ELSE 0

RECURSIVE ScoreSum(_)
ScoreSum(docs) == IF docs = <<>> THEN 0 ELSE ScoreOf(Head(docs)) + ScoreSum(Tail(docs))

\* get_fit_scores(before, after): the score lift from before to after and the
\* score of each document of after
GetFitScores(before, after) ==
    [fit_score_lift |-> ScoreSum(after) - ScoreSum(before),
     rerank_effect |-> 0,
     fit_scores |-> [i \in 1..Len(after) |->
                        [doc_chunk_id |-> DocChunkId(after[i]), score |-> after[i].score]]]

\* RetrievalFitStats(fit_score_lift=0, rerank_effect=0, fit_scores={})
ZeroFitStats == [fit_score_lift |-> 0, rerank_effect |-> 0, fit_scores |-> <<>>]

NoneStats == [some |-> FALSE, v |-> ZeroFitStats]

(***************************************************************************)
(* State of one unit of work                                               *)
(***************************************************************************)
VARIABLES
    pc,                          \* the stage the graph engine is at
    error,                       \* the exception that ended the unit of work, "" if none
    chat_session_id,             \* state["subgraph_config"].chat_session_id
    question,                    \* state["question"], NoneText when the key is absent
    sub_question_id,             \* state["sub_question_id"]
    config,                      \* the AGENT_* settings of dev_configs
    expanded_queries,            \* QueryExpansionUpdate.expanded_queries
    retrieval_tasks,             \* the doc_retrieval task of each expanded query
    expanded_retrieval_results,  \* merged list of QueryResult
    retrieved_documents,         \* merged list of retrieved documents
    verification_tasks,          \* the doc_verification task of each retrieved document
    verified_documents,          \* merged list of verified documents
    reranked_documents,          \* DocRerankingUpdate.reranked_documents
    sub_question_retrieval_stats,\* DocRerankingUpdate.sub_question_retrieval_stats
    expanded_retrieval_result,   \* the result bundle of format_results
    subquery_events,             \* "subqueries" custom events, in emission order
    tool_response_events,        \* "tool_response" custom events, in emission order
    llm_calls,                   \* calls made to the language model
    llm_response,                \* the merged text of the stream, as expand_queries split it
    rerank_settings              \* _search_query.rerank_settings as doc_reranking saw them

vars == <<pc, error, chat_session_id, question, sub_question_id, config,
          expanded_queries, retrieval_tasks, expanded_retrieval_results,
          retrieved_documents, verification_tasks, verified_documents,
          reranked_documents, sub_question_retrieval_stats,
          expanded_retrieval_result, subquery_events, tool_response_events, llm_calls,
          llm_response, rerank_settings>>

inputs == <<chat_session_id, question, sub_question_id, config>>

\* state["subgraph_config"].search_request.query
search_request_query == s_q

\* raise ValueError("chat_session_id must be provided for agent search")
ConfigurationError == "ValueError: chat_session_id must be provided for agent search"

\* the settings of dev_configs the model runs under
Config(max_retrieval, max_reranked, retrieval_stats, reranking_stats) ==
    [AGENT_MAX_QUERY_RETRIEVAL_RESULTS |-> max_retrieval,
     AGENT_RERANKING_MAX_QUERY_RETRIEVAL_RESULTS |-> max_reranked,
     AGENT_RETRIEVAL_STATS |-> retrieval_stats,
     AGENT_RERANKING_STATS |-> reranking_stats]

UnitInput(chat, q, sq, cfg) ==
    [chat_session_id |-> chat, question |-> q, sub_question_id |-> sq, config |-> cfg]

\* the units of work the model runs: the original question and a sub-question,
\* with and without a chat session, under caps that cut and caps that do not
UnitInputs ==
    {UnitInput(NoneText, NoneText, NoneText, Config(1, 2, TRUE, FALSE)),
     UnitInput(NoneText, Some(s_s), Some(<<"1", "_", "2">>), Config(2, 1, FALSE, TRUE)),
     UnitInput(Some(<<"c">>), NoneText, NoneText, Config(1, 2, TRUE, FALSE)),
     UnitInput(Some(<<"c">>), Some(s_s), Some(<<"1", "_", "2">>), Config(2, 1, FALSE, TRUE)),
     UnitInput(Some(<<"c">>), Some(s_space), NoneText, Config(2, 2, FALSE, FALSE))}

RerankSettings(name, num) == [some |-> TRUE, rerank_model_name |-> name, num_rerank |-> num]

\* _search_query.rerank_settings is None
NoRerankSettings == [some |-> FALSE, rerank_model_name |-> NoneText, num_rerank |-> 0]

NoBundle ==
    [some |-> FALSE, expanded_queries_results |-> <<>>, all_documents |-> <<>>,
     sub_question_retrieval_stats |-> CalculateSubQuestionRetrievalStats(<<>>, <<>>)]

Init ==
    /\ pc = "expand_queries"
    /\ error = ""
    /\ \E u \in UnitInputs :
         /\ chat_session_id = u.chat_session_id
         /\ question = u.question
         /\ sub_question_id = u.sub_question_id
         /\ config = u.config
    /\ expanded_queries = <<>>
    /\ retrieval_tasks = <<>>
    /\ expanded_retrieval_results = <<>>
    /\ retrieved_documents = <<>>
    /\ verification_tasks = <<>>
    /\ verified_documents = <<>>
    /\ reranked_documents = <<>>
    /\ sub_question_retrieval_stats = NoneStats
    /\ expanded_retrieval_result = NoBundle
    /\ subquery_events = <<>>
    /\ tool_response_events = <<>>
    /\ llm_calls = [stream |-> 0, invoke |-> 0]
    /\ llm_response = NoneText
    /\ rerank_settings = NoRerankSettings

\* state.get("question", state["subgraph_config"].search_request.query)
QuestionOrSearchRequestQuery == IF question.some THEN question.v ELSE search_request_query

\* an exception leaves the node: the engine ends the unit of work with it
Raise(exc) ==
    /\ pc' = "raised"
    /\ error' = exc

(***************************************************************************)
(* expand_queries                                                          *)
(***************************************************************************)
\* what llm.stream may yield: no chunk at all, chunks of empty and blank text,
\* one query followed by a line break, two queries split across chunks
Streams ==
    {<<>>,
     <<s_empty, s_space>>,
     <<s_a, s_nl>>,
     <<<<"a", "\n">>, s_b>>}

ExpandLevel ==
    IF sub_question_id.some THEN ParseQuestionId(sub_question_id.v) ELSE <<0, 0>>

\* the check of chat_session_id left out
MissingChatSessionUnchecked == FALSE

\* if chat_session_id is None
MissingChatSession == ~chat_session_id.some

\* str.split("\n") mistaken for a split that drops empty pieces
RewrittenQueriesNoEmpty(llm_response_text) ==
    SelectSeq(Split(llm_response_text, "\n"), LAMBDA piece : piece # <<>>)

\* a fallback to the question when the text holds no query
RewrittenQueriesWithFallback(llm_response_text) ==
    IF IsBlank(llm_response_text) THEN <<QuestionOrSearchRequestQuery>>
    ELSE Split(llm_response_text, "\n")

\* llm_response.split("\n")
RewrittenQueries(llm_response_text) == Split(llm_response_text, "\n")

expand_queries ==
    /\ pc = "expand_queries"
    /\ IF MissingChatSession
       THEN /\ Raise(ConfigurationError)
            /\ UNCHANGED <<expanded_queries, subquery_events, llm_calls, llm_response>>
       ELSE \/ \* llm.stream fails
               /\ Raise("LLMStreamError")
               /\ llm_calls' = [llm_calls EXCEPT !.stream = @ + 1]
               /\ UNCHANGED <<expanded_queries, subquery_events, llm_response>>
            \/ \E chunks \in Streams :
                 LET lq == ExpandLevel
                     llm_response_list == DispatchSeparated(chunks, lq[1], lq[2], 0)
                     merged == MergeMessageRuns(llm_response_list.tokens)
                 IN /\ llm_calls' = [llm_calls EXCEPT !.stream = @ + 1]
                    /\ subquery_events' = subquery_events \o llm_response_list.events
                    /\ IF merged = <<>>
                       THEN \* merge_message_runs(...)[0] on an empty list
                            /\ Raise("IndexError")
                            /\ UNCHANGED <<expanded_queries, llm_response>>
                       ELSE /\ llm_response' = Some(merged[1])
                            /\ expanded_queries' = RewrittenQueries(merged[1])
                            /\ pc' = "parallel_retrieval_edge"
                            /\ UNCHANGED error
    /\ UNCHANGED <<inputs, retrieval_tasks, expanded_retrieval_results, retrieved_documents,
                   verification_tasks, verified_documents, reranked_documents,
                   sub_question_retrieval_stats, expanded_retrieval_result,
                   tool_response_events, rerank_settings>>

\* DocRetrievalUpdate
DocRetrievalUpdate(results, documents) ==
    [expanded_retrieval_results |-> results, retrieved_documents |-> documents]

NoUpdate == DocRetrievalUpdate(<<>>, <<>>)

\* the engine spawns one doc_retrieval task per expanded query
parallel_retrieval_edge ==
    /\ pc = "parallel_retrieval_edge"
    /\ retrieval_tasks' =
          [i \in 1..Len(expanded_queries) |->
              [query_to_retrieve |-> expanded_queries[i], status |-> "pending",
               backend_runs |-> 0, backend_failed |-> FALSE, responses |-> <<>>,
               events |-> <<>>, update |-> NoUpdate]]
    /\ pc' = "doc_retrieval"
    /\ UNCHANGED <<error, inputs, expanded_queries, expanded_retrieval_results,
                   retrieved_documents, verification_tasks, verified_documents,
                   reranked_documents, sub_question_retrieval_stats,
                   expanded_retrieval_result, subquery_events, tool_response_events,
                   llm_calls, llm_response, rerank_settings>>

(***************************************************************************)
(* doc_retrieval                                                           *)
(***************************************************************************)
SEARCH_RESPONSE_SUMMARY_ID == "search_response_summary"

ToolResponse(id, top_sections) == [id |-> id, response |-> [top_sections |-> top_sections]]

\* lists of sections a summary response may carry: no chunk twice in one list
TopSections ==
    {s \in SeqsUpTo(Corpus, MaxRetrieved) :
        \A i, j \in 1..Len(s) : i # j => DocKey(s[i]) # DocKey(s[j])}

\* what search_tool.run may yield: nothing at all, or a summary response
\* followed by a response of another kind
BackendRuns ==
    {<<>>}
    \cup {<<ToolResponse(SEARCH_RESPONSE_SUMMARY_ID, s),
            ToolResponse("section_relevance_list", <<>>)>> : s \in TopSections}

\* retrieved_docs after the for loop: top_sections of the last summary response
RECURSIVE RetrievedDocs(_, _)
RetrievedDocs(responses, retrieved_docs) ==
    IF responses = <<>> THEN retrieved_docs
    ELSE RetrievedDocs(Tail(responses),
            IF Head(responses).id = SEARCH_RESPONSE_SUMMARY_ID
            THEN Head(responses).response.top_sections
            ELSE retrieved_docs)

RetrievalLevel ==
    IF sub_question_id.some /\ sub_question_id.v # <<>>
    THEN ParseQuestionId(sub_question_id.v) ELSE <<0, 0>>

\* the event dispatched only for the summary response
ToolResponseEventsSummaryOnly(responses) ==
    LET summaries == SelectSeq(responses, LAMBDA r : r.id = SEARCH_RESPONSE_SUMMARY_ID)
    IN [k \in 1..Len(summaries) |->
          [name |-> "tool_response", id |-> summaries[k].id, response |-> summaries[k].response,
           level |-> RetrievalLevel[1], level_question_nr |-> RetrievalLevel[2]]]

\* ExtendedToolResponse of each response, in the order the backend yields them
ToolResponseEvents(responses) ==
    [k \in 1..Len(responses) |->
        [name |-> "tool_response", id |-> responses[k].id, response |-> responses[k].response,
         level |-> RetrievalLevel[1], level_question_nr |-> RetrievalLevel[2]]]

\* the skip without strip(): `if not query_to_retrieve`
SkipsRetrievalEmptyOnly(query_to_retrieve) == query_to_retrieve = <<>>

\* the skip of a blank query: `if not query_to_retrieve.strip()`
SkipsRetrieval(query_to_retrieve) == IsBlank(query_to_retrieve)

\* retrieved_docs[:AGENT_MAX_QUERY_RETRIEVAL_RESULTS]
CutRetrieved(retrieved_docs) == Truncate(retrieved_docs, config.AGENT_MAX_QUERY_RETRIEVAL_RESULTS)

\* the cut applied to the QueryResult but not to the documents handed on
RetrievalUpdateUncut(query_to_retrieve, responses, pipeline_sections) ==
    [expanded_retrieval_results |->
        <<[query |-> query_to_retrieve,
           search_results |-> Truncate(RetrievedDocs(responses, <<>>),
                                       config.AGENT_MAX_QUERY_RETRIEVAL_RESULTS),
           stats |-> NoneStats]>>,
     retrieved_documents |-> RetrievedDocs(responses, <<>>)]

\* the update of a query that is not skipped, from what the backend yielded;
\* pipeline_sections is search_pipeline._retrieved_sections, empty when the
\* tool has no search pipeline or the pipeline holds no sections
RetrievalUpdate(query_to_retrieve, responses, pipeline_sections) ==
    LET retrieved_docs == CutRetrieved(RetrievedDocs(responses, <<>>))
        pre_rerank_docs ==
            IF pipeline_sections = <<>> THEN retrieved_docs ELSE pipeline_sections
        fit_scores ==
            IF config.AGENT_RETRIEVAL_STATS
            THEN [some |-> TRUE, v |-> GetFitScores(pre_rerank_docs, retrieved_docs)]
            ELSE NoneStats
    IN DocRetrievalUpdate(<<QueryResult(query_to_retrieve, retrieved_docs, fit_scores)>>,
                          retrieved_docs)

\* the engine merges a returned update by list append
MergeRetrieval(update) ==
    /\ expanded_retrieval_results' =
          expanded_retrieval_results \o update.expanded_retrieval_results
    /\ retrieved_documents' = retrieved_documents \o update.retrieved_documents

doc_retrieval(i) ==
    /\ pc = "doc_retrieval"
    /\ retrieval_tasks[i].status = "pending"
    /\ LET query_to_retrieve == retrieval_tasks[i].query_to_retrieve IN
       IF SkipsRetrieval(query_to_retrieve)
       THEN /\ retrieval_tasks' = [retrieval_tasks EXCEPT ![i].status = "returned",
                                                           ![i].update = NoUpdate]
            /\ MergeRetrieval(NoUpdate)
            /\ UNCHANGED <<pc, error, tool_response_events>>
       ELSE \/ \* search_tool.run raises
               /\ retrieval_tasks' = [retrieval_tasks EXCEPT ![i].status = "raised",
                                                              ![i].backend_runs = @ + 1,
                                                              ![i].backend_failed = TRUE]
               /\ Raise("BackendError")
               /\ UNCHANGED <<expanded_retrieval_results, retrieved_documents,
                              tool_response_events>>
            \/ \E responses \in BackendRuns :
               \E pipeline_sections \in {<<>>, RetrievedDocs(responses, <<>>)} :
                 LET update == RetrievalUpdate(query_to_retrieve, responses, pipeline_sections)
                 IN /\ Len(retrieved_documents) + Len(update.retrieved_documents) <= MaxRetrieved
                    /\ retrieval_tasks' = [retrieval_tasks EXCEPT ![i].status = "returned",
                                                                   ![i].backend_runs = @ + 1,
                                                                   ![i].responses = responses,
                                                                   ![i].events =
                                                                       ToolResponseEvents(responses),
                                                                   ![i].update = update]
                    /\ tool_response_events' =
                          tool_response_events \o ToolResponseEvents(responses)
                    /\ MergeRetrieval(update)
                    /\ UNCHANGED <<pc, error>>
    /\ UNCHANGED <<inputs, expanded_queries, verification_tasks, verified_documents,
                   reranked_documents, sub_question_retrieval_stats,
                   expanded_retrieval_result, subquery_events, llm_calls, llm_response, rerank_settings>>

(***************************************************************************)
(* verification_kickoff and doc_verification                               *)
(***************************************************************************)
\* a barrier that lets the next stage start at once
AllReturnedUnchecked(tasks) == TRUE

\* every task of a fan-out stage has returned and been merged
AllReturned(tasks) == \A i \in 1..Len(tasks) : tasks[i].status = "returned"

\* response.content of the model: a text, or a list of content blocks
TextContent(text) == [is_str |-> TRUE, text |-> text]
ListContent == [is_str |-> FALSE, text |-> <<>>]

VerifierResponses ==
    {TextContent(<<"Y", "e", "s", ".">>), TextContent(<<"n", "o">>), ListContent}

\* DocVerificationInput of one Send
DocVerificationInput(doc) ==
    [doc_to_verify |-> doc, question |-> QuestionOrSearchRequestQuery,
     base_search |-> FALSE, sub_question_id |-> sub_question_id,
     status |-> "pending", invoke_failed |-> FALSE, response |-> ListContent,
     update |-> <<>>]

\* one Send to doc_verification per retrieved document
verification_kickoff ==
    /\ pc = "doc_retrieval"
    /\ AllReturned(retrieval_tasks)
    /\ verification_tasks' =
          [k \in 1..Len(retrieved_documents) |-> DocVerificationInput(retrieved_documents[k])]
    /\ pc' = "doc_verification"
    /\ UNCHANGED <<error, inputs, expanded_queries, retrieval_tasks,
                   expanded_retrieval_results, retrieved_documents, verified_documents,
                   reranked_documents, sub_question_retrieval_stats,
                   expanded_retrieval_result, subquery_events, tool_response_events,
                   llm_calls, llm_response, rerank_settings>>

\* DocVerificationInput of one Send of nodes/verification_kickoff.py: the
\* question is state["question"], and no sub_question_id is handed on
NodesDocVerificationInput(doc) ==
    [doc_to_verify |-> doc, question |-> question.v,
     status |-> "pending", invoke_failed |-> FALSE, response |-> ListContent,
     update |-> <<>>]

\* the second definition of the node, in nodes/verification_kickoff.py: it reads
\* state["question"] for each document, a KeyError when the unit of work
\* carries no question
nodes_verification_kickoff ==
    /\ pc = "doc_retrieval"
    /\ AllReturned(retrieval_tasks)
    /\ IF question.some \/ retrieved_documents = <<>>
       THEN /\ verification_tasks' =
                  [k \in 1..Len(retrieved_documents) |->
                      NodesDocVerificationInput(retrieved_documents[k])]
            /\ pc' = "doc_verification"
            /\ UNCHANGED error
       ELSE \* state["question"] is evaluated for the first document
            /\ Raise("KeyError")
            /\ UNCHANGED verification_tasks
    /\ UNCHANGED <<inputs, expanded_queries, retrieval_tasks,
                   expanded_retrieval_results, retrieved_documents, verified_documents,
                   reranked_documents, sub_question_retrieval_stats,
                   expanded_retrieval_result, subquery_events, tool_response_events,
                   llm_calls, llm_response, rerank_settings>>

\* the test without lower(): "yes" in response.content
IsRelevantCaseSensitive(content) == content.is_str /\ Contains(content.text, <<"y", "e", "s">>)

\* isinstance(response.content, str) and "yes" in response.content.lower()
IsRelevant(content) == content.is_str /\ Contains(Lower(content.text), <<"y", "e", "s">>)

\* the document returned twice
VerifiedUpdateTwice(doc_to_verify, content) ==
    IF IsRelevant(content) THEN <<doc_to_verify, doc_to_verify>> ELSE <<>>

\* DocVerificationUpdate.verified_documents
VerifiedUpdate(doc_to_verify, content) ==
    IF IsRelevant(content) THEN <<doc_to_verify>> ELSE <<>>

doc_verification(j) ==
    /\ pc = "doc_verification"
    /\ verification_tasks[j].status = "pending"
    /\ llm_calls' = [llm_calls EXCEPT !.invoke = @ + 1]
    /\ \/ \* fast_llm.invoke raises
          /\ verification_tasks' = [verification_tasks EXCEPT ![j].status = "raised",
                                                               ![j].invoke_failed = TRUE]
          /\ Raise("LLMInvokeError")
          /\ UNCHANGED verified_documents
       \/ \E content \in VerifierResponses :
            LET update == VerifiedUpdate(verification_tasks[j].doc_to_verify, content)
            IN /\ verification_tasks' = [verification_tasks EXCEPT ![j].status = "returned",
                                                                    ![j].response = content,
                                                                    ![j].update = update]
               /\ verified_documents' = verified_documents \o update
               /\ UNCHANGED <<pc, error>>
    /\ UNCHANGED <<inputs, expanded_queries, retrieval_tasks, expanded_retrieval_results,
                   retrieved_documents, reranked_documents, sub_question_retrieval_stats,
                   expanded_retrieval_result, subquery_events, tool_response_events,
                   llm_response, rerank_settings>>

(***************************************************************************)
(* doc_reranking                                                           *)
(***************************************************************************)
\* rerank settings retrieval_preprocessing may resolve
PossibleRerankSettings ==
    {NoRerankSettings,
     RerankSettings(NoneText, 2),
     RerankSettings(Some(<<"m">>), 0),
     RerankSettings(Some(<<"m">>), 2)}

\* the test of num_rerank left out
RerankingConfiguredIgnoringCount(settings) ==
    /\ settings.some
    /\ settings.rerank_model_name.some
    /\ settings.rerank_model_name.v # <<>>

\* rerank_settings and rerank_settings.rerank_model_name and num_rerank > 0
RerankingConfigured(settings) ==
    /\ settings.some
    /\ settings.rerank_model_name.some
    /\ settings.rerank_model_name.v # <<>>
    /\ settings.num_rerank > 0

IndexOrders(n) == {p \in [1..n -> 1..n] : \A i, j \in 1..n : i # j => p[i] # p[j]}

\* rerank_sections: the documents in another order, possibly with an entry
\* that is no document section before or after them
RerankOutputs(documents) ==
    LET reordered == {[i \in 1..Len(documents) |-> documents[p[i]]] :
                          p \in IndexOrders(Len(documents))}
    IN reordered \cup {<<Malformed>> \o r : r \in reordered}
                 \cup {r \o <<Malformed>> : r \in reordered}

\* the type filter left out
OnlyInferenceSectionsUnfiltered(documents) == documents

\* [doc for doc in reranked_documents if type(doc) == InferenceSection]
OnlyInferenceSections(documents) ==
    SelectSeqBy(documents, {d \in Range(documents) : d.type = "InferenceSection"})

\* [...][:AGENT_RERANKING_MAX_QUERY_RETRIEVAL_RESULTS]
CutReranked(documents) ==
    Truncate(documents, config.AGENT_RERANKING_MAX_QUERY_RETRIEVAL_RESULTS)

\* statistics left absent when disabled, as doc_retrieval does
DocRerankingUpdateAbsentStats(verified, reranked) ==
    [reranked_documents |-> CutReranked(OnlyInferenceSections(reranked)),
     sub_question_retrieval_stats |->
        IF config.AGENT_RERANKING_STATS
        THEN [some |-> TRUE, v |-> GetFitScores(verified, reranked)]
        ELSE NoneStats]

\* DocRerankingUpdate, from what the reranking stage read or received
DocRerankingUpdate(verified, reranked) ==
    [reranked_documents |-> CutReranked(OnlyInferenceSections(reranked)),
     sub_question_retrieval_stats |->
        IF config.AGENT_RERANKING_STATS
        THEN [some |-> TRUE, v |-> GetFitScores(verified, reranked)]
        ELSE [some |-> TRUE, v |-> ZeroFitStats]]

doc_reranking ==
    /\ pc = "doc_verification"
    /\ AllReturned(verification_tasks)
    /\ \/ \* retrieval_preprocessing raises
          /\ Raise("PreprocessingError")
          /\ UNCHANGED <<reranked_documents, sub_question_retrieval_stats, rerank_settings>>
       \/ \E settings \in PossibleRerankSettings :
            /\ rerank_settings' = settings
            /\ IF RerankingConfigured(settings)
               THEN \/ \* rerank_sections raises
                       /\ Raise("RerankError")
                       /\ UNCHANGED <<reranked_documents, sub_question_retrieval_stats>>
                    \/ \E reranked \in RerankOutputs(verified_documents) :
                         LET update == DocRerankingUpdate(verified_documents, reranked)
                         IN /\ reranked_documents' = update.reranked_documents
                            /\ sub_question_retrieval_stats' = update.sub_question_retrieval_stats
                            /\ pc' = "format_results"
                            /\ UNCHANGED error
               ELSE LET update == DocRerankingUpdate(verified_documents, verified_documents)
                    IN /\ reranked_documents' = update.reranked_documents
                       /\ sub_question_retrieval_stats' = update.sub_question_retrieval_stats
                       /\ pc' = "format_results"
                       /\ UNCHANGED error
    /\ UNCHANGED <<inputs, expanded_queries, retrieval_tasks, expanded_retrieval_results,
                   retrieved_documents, verification_tasks, verified_documents,
                   expanded_retrieval_result, subquery_events, tool_response_events,
                   llm_calls, llm_response>>

(***************************************************************************)
(* format_results                                                          *)
(***************************************************************************)
ExpandedRetrievalResult(results, documents, stats) ==
    [some |-> TRUE, expanded_queries_results |-> results, all_documents |-> documents,
     sub_question_retrieval_stats |-> stats]

format_results ==
    /\ pc = "format_results"
    /\ expanded_retrieval_result' =
          ExpandedRetrievalResult(
              expanded_retrieval_results,
              reranked_documents,
              CalculateSubQuestionRetrievalStats(verified_documents,
                                                 expanded_retrieval_results))
    /\ pc' = "done"
    /\ UNCHANGED <<error, inputs, expanded_queries, retrieval_tasks,
                   expanded_retrieval_results, retrieved_documents, verification_tasks,
                   verified_documents, reranked_documents, sub_question_retrieval_stats,
                   subquery_events, tool_response_events, llm_calls, llm_response, rerank_settings>>

Next ==
    \/ expand_queries
    \/ parallel_retrieval_edge
    \/ \E i \in 1..Len(retrieval_tasks) : doc_retrieval(i)
    \/ verification_kickoff
    \/ nodes_verification_kickoff
    \/ \E j \in 1..Len(verification_tasks) : doc_verification(j)
    \/ doc_reranking
    \/ format_results

Spec == Init /\ [][Next]_vars

(***************************************************************************)
(* Properties                                                              *)
(***************************************************************************)
Bundle == expanded_retrieval_result

\* the distinct (document_id, chunk_id) keys of all search_results of a list of QueryResults
ObservedKeys(results) == {DocKey(d) : d \in Range(AllSearchResults(results))}

\* expand_queries has returned its update (it neither raised nor is still to run)
ExpansionReturned == llm_response.some

\* C1: when format_results has built the bundle, the ChunkStats in it satisfy
\* verified_count + rejected_count = number of distinct (document_id, chunk_id)
\* keys occurring in the search_results of the bundle's QueryResults, documents
\* without a score included.
C1_CountsCoverObservedKeys ==
    pc = "done" =>
        Bundle.sub_question_retrieval_stats.verified_count
            + Bundle.sub_question_retrieval_stats.rejected_count
        = Cardinality(ObservedKeys(Bundle.expanded_queries_results))

\* C2: once doc_reranking has returned, whatever reranking settings were resolved
\* and whatever the reranker handed back, every entry of reranked_documents is a
\* document of the verified-document list and there are at most
\* AGENT_RERANKING_MAX_QUERY_RETRIEVAL_RESULTS entries.
C2_RerankedWithinVerifiedAndCap ==
    pc \in {"format_results", "done"} =>
        /\ \A k \in 1..Len(reranked_documents) :
              reranked_documents[k] \in Range(verified_documents)
        /\ Len(reranked_documents) <= config.AGENT_RERANKING_MAX_QUERY_RETRIEVAL_RESULTS

\* C2 witness: a reranking model was used on two verified documents, its output
\* carried an entry that is no document section (the fit statistics saw three
\* entries), and the result was cut to the cap of one.
C2_Witness ==
    /\ pc = "format_results"
    /\ RerankingConfigured(rerank_settings)
    /\ Len(verified_documents) = 2
    /\ config.AGENT_RERANKING_STATS
    /\ Len(sub_question_retrieval_stats.v.fit_scores) = 3
    /\ Len(reranked_documents) = 1

\* C3: in a complete run, every document of the bundle's all_documents is in the
\* search_results of at least one QueryResult of the bundle's
\* expanded_queries_results.
C3_FinalDocumentsWereRetrieved ==
    pc = "done" =>
        \A k \in 1..Len(Bundle.all_documents) :
            \E r \in 1..Len(Bundle.expanded_queries_results) :
                Bundle.all_documents[k] \in Range(Bundle.expanded_queries_results[r].search_results)

\* C3 witness: a complete run whose bundle holds documents of two QueryResults.
C3_Witness ==
    /\ pc = "done"
    /\ Len(Bundle.expanded_queries_results) = 2
    /\ Len(Bundle.all_documents) = 2

\* C4 as claimed: a doc_retrieval task of a blank query returns one QueryResult
\* for that query, with no search results, and no documents, without running the
\* backend.
C4_BlankQueryGivesEmptyQueryResult ==
    \A i \in 1..Len(retrieval_tasks) :
        (IsBlank(retrieval_tasks[i].query_to_retrieve) /\ retrieval_tasks[i].status # "pending") =>
            /\ retrieval_tasks[i].status = "returned"
            /\ retrieval_tasks[i].backend_runs = 0
            /\ retrieval_tasks[i].update.retrieved_documents = <<>>
            /\ Len(retrieval_tasks[i].update.expanded_retrieval_results) = 1
            /\ retrieval_tasks[i].update.expanded_retrieval_results[1].query
                  = retrieval_tasks[i].query_to_retrieve
            /\ retrieval_tasks[i].update.expanded_retrieval_results[1].search_results = <<>>

\* C4 as amended: a doc_retrieval task of a blank query returns an empty update,
\* with no QueryResult at all and no documents, and never runs the backend.
C4_BlankQueryGivesEmptyUpdate ==
    \A i \in 1..Len(retrieval_tasks) :
        (IsBlank(retrieval_tasks[i].query_to_retrieve) /\ retrieval_tasks[i].status # "pending") =>
            /\ retrieval_tasks[i].status = "returned"
            /\ retrieval_tasks[i].backend_runs = 0
            /\ retrieval_tasks[i].update.retrieved_documents = <<>>
            /\ retrieval_tasks[i].update.expanded_retrieval_results = <<>>

\* C4 witness: the task of a query made of one space has returned, after the
\* empty and blank chunks of the stream were merged into one query.
C4_Witness ==
    \E i \in 1..Len(retrieval_tasks) :
        /\ retrieval_tasks[i].query_to_retrieve = s_space
        /\ retrieval_tasks[i].status = "returned"

\* C5: whenever expand_queries returns, for whatever chunks the model streamed
\* (none at all, or chunks of empty text), the list of expanded queries has at
\* least one entry and the node did not fail on indexing the merged response.
C5_ExpandedQueriesNonEmpty ==
    /\ error # "IndexError"
    /\ ExpansionReturned => Len(expanded_queries) >= 1

\* C5 witness: the model streamed no chunk at all (no sub-query event) and
\* expand_queries returned the one-entry list holding the empty text.
C5_Witness ==
    /\ pc = "parallel_retrieval_edge"
    /\ llm_calls.stream = 1
    /\ subquery_events = <<>>
    /\ expanded_queries = <<s_empty>>

\* C6 as claimed: when the model's text is empty or blank, or the question is
\* blank, the list expand_queries returns contains the original question.
C6_FallbackToOriginalQuestion ==
    (ExpansionReturned /\ (IsBlank(llm_response.v) \/ IsBlank(QuestionOrSearchRequestQuery))) =>
        QuestionOrSearchRequestQuery \in Range(expanded_queries)

\* C6 as amended: when the model's text is empty or blank, or the question is
\* blank, the list expand_queries returns is still non-empty, but it holds
\* exactly the lines of the model's text (one empty line for an empty text): no
\* entry is added for the original question.
C6_LinesOfTextWithoutFallback ==
    (ExpansionReturned /\ (IsBlank(llm_response.v) \/ IsBlank(QuestionOrSearchRequestQuery))) =>
        /\ Len(expanded_queries) >= 1
        /\ Len(expanded_queries)
              = 1 + Cardinality({k \in 1..Len(llm_response.v) : llm_response.v[k] = "\n"})
        /\ \A k \in 1..Len(expanded_queries) : "\n" \notin Range(expanded_queries[k])
        /\ Len(Concat(expanded_queries)) + Len(expanded_queries) - 1 = Len(llm_response.v)
        /\ IsBlank(llm_response.v) => \A k \in 1..Len(expanded_queries) : IsBlank(expanded_queries[k])

\* C6 witness: the question is "q", the model's text is empty, and the list
\* returned is the single empty entry.
C6_Witness ==
    /\ ExpansionReturned
    /\ ~question.some
    /\ llm_response.v = s_empty
    /\ expanded_queries = <<s_empty>>

\* C7: a doc_verification task whose model invocation failed has returned with
\* no document and raised nothing, so the unit of work goes on with its siblings.
C7_VerificationFailureStaysLocal ==
    \A j \in 1..Len(verification_tasks) :
        verification_tasks[j].invoke_failed =>
            /\ verification_tasks[j].status = "returned"
            /\ verification_tasks[j].update = <<>>
            /\ pc # "raised"

\* C8: a doc_retrieval task whose backend call failed has returned with an empty
\* contribution and raised nothing, so the unit of work goes on with its siblings.
C8_RetrievalFailureStaysLocal ==
    \A i \in 1..Len(retrieval_tasks) :
        retrieval_tasks[i].backend_failed =>
            /\ retrieval_tasks[i].status = "returned"
            /\ retrieval_tasks[i].update = NoUpdate
            /\ pc # "raised"

\* C9: a unit of work ends without a result bundle only by the
\* ConfigurationError of a missing chat session; with the chat session present,
\* no failure of the backend, the reranker or the model ends it.
C9_OnlyConfigurationErrorEndsWithoutBundle ==
    pc = "raised" => (MissingChatSession /\ error = ConfigurationError)

\* C10: when the chat session id is absent, expand_queries ends the unit of work
\* with the ConfigurationError, the language model has not been called and no
\* sub-query event has been emitted.
C10_ConfigurationErrorBeforeModelCall ==
    (~chat_session_id.some /\ pc # "expand_queries") =>
        /\ pc = "raised"
        /\ error = ConfigurationError
        /\ llm_calls = [stream |-> 0, invoke |-> 0]
        /\ subquery_events = <<>>
        /\ expanded_queries = <<>>

\* C10 witness: a unit of work for a sub-question without chat session has been
\* ended by expand_queries.
C10_Witness ==
    /\ ~chat_session_id.some
    /\ sub_question_id.some
    /\ pc = "raised"
    /\ error = ConfigurationError

\* C11: a doc_verification task that has returned contributes exactly its own
\* document when the response is a text whose lowercase form has the letters
\* y, e, s in a row, and nothing in every other case (a text without them, or a
\* response that is no text); it never contributes two documents or another one.
C11_VerifiedExactlyOnYes ==
    \A j \in 1..Len(verification_tasks) :
        verification_tasks[j].status = "returned" =>
            LET content == verification_tasks[j].response
                text == content.text
                says_yes ==
                    /\ content.is_str
                    /\ \E k \in 1..(Len(text) - 2) :
                          /\ text[k] \in {"y", "Y"}
                          /\ text[k + 1] \in {"e", "E"}
                          /\ text[k + 2] \in {"s", "S"}
            IN /\ says_yes => verification_tasks[j].update = <<verification_tasks[j].doc_to_verify>>
               /\ ~says_yes => verification_tasks[j].update = <<>>

\* C11 witness: the model answered "Yes." for one document and "no" for
\* another; the first task returned its document and the second returned none.
C11_Witness ==
    \E j, k \in 1..Len(verification_tasks) :
        /\ verification_tasks[j].status = "returned"
        /\ verification_tasks[j].response = TextContent(<<"Y", "e", "s", ".">>)
        /\ verification_tasks[j].update = <<verification_tasks[j].doc_to_verify>>
        /\ verification_tasks[k].status = "returned"
        /\ verification_tasks[k].response = TextContent(<<"n", "o">>)
        /\ verification_tasks[k].update = <<>>

\* doc_reranking has returned its update
RerankingReturned == pc \in {"format_results", "done"}

\* the settings doc_reranking resolved name no reranking model, or a rerank
\* count that is not positive
NoModelOrNoCount ==
    \/ ~rerank_settings.some
    \/ ~rerank_settings.rerank_model_name.some
    \/ rerank_settings.rerank_model_name.v = <<>>
    \/ rerank_settings.num_rerank <= 0

\* C12 as claimed: with no reranking model or no positive rerank count, the
\* reranked list is the verified-document list unchanged, whatever its length.
C12_FallbackEqualsVerified ==
    (RerankingReturned /\ NoModelOrNoCount) => reranked_documents = verified_documents

\* C12 as amended: with no reranking model or no positive rerank count, the
\* reranked list is the verified-document list in the same order, cut to its
\* first AGENT_RERANKING_MAX_QUERY_RETRIEVAL_RESULTS entries; it is the whole
\* list when the list is not longer than that.
C12_FallbackIsVerifiedCutToCap ==
    (RerankingReturned /\ NoModelOrNoCount) =>
        /\ Len(reranked_documents) =
              IF Len(verified_documents) < config.AGENT_RERANKING_MAX_QUERY_RETRIEVAL_RESULTS
              THEN Len(verified_documents)
              ELSE config.AGENT_RERANKING_MAX_QUERY_RETRIEVAL_RESULTS
        /\ \A k \in 1..Len(reranked_documents) : reranked_documents[k] = verified_documents[k]

\* C12 witness: a reranking model is named but the rerank count is 0, two
\* different documents were verified and the cap of one kept the first of them.
C12_Witness ==
    /\ pc = "format_results"
    /\ rerank_settings = RerankSettings(Some(<<"m">>), 0)
    /\ Len(verified_documents) = 2
    /\ verified_documents[1] # verified_documents[2]
    /\ reranked_documents = <<verified_documents[1]>>

\* C13: with reranking statistics disabled, the statistics doc_reranking returns
\* are present, with lift 0 and an empty score map, with or without a reranking
\* model and whatever was verified.
C13_DisabledRerankStatsAreZero ==
    (RerankingReturned /\ ~config.AGENT_RERANKING_STATS) =>
        /\ sub_question_retrieval_stats.some
        /\ sub_question_retrieval_stats.v.fit_score_lift = 0
        /\ sub_question_retrieval_stats.v.fit_scores = <<>>

\* C13 witness: statistics disabled, a reranking model was used and a document
\* with a score came out of it.
C13_Witness ==
    /\ pc = "format_results"
    /\ ~config.AGENT_RERANKING_STATS
    /\ RerankingConfigured(rerank_settings)
    /\ Len(reranked_documents) >= 1
    /\ reranked_documents[1].score.some

\* how many entries of documents carry the key
EntriesWithKey(documents, key) ==
    Cardinality({k \in 1..Len(documents) : DocKey(documents[k]) = key})

\* how many entries of documents are the document
Entries(documents, doc) ==
    Cardinality({k \in 1..Len(documents) : documents[k] = doc})

RECURSIVE UpdateEntries(_, _)
\* how many entries the updates of the tasks hold of the document
UpdateEntries(tasks, doc) ==
    IF tasks = <<>> THEN 0
    ELSE Entries(Head(tasks).update, doc) + UpdateEntries(Tail(tasks), doc)

\* C14: verification is not kicked off before every doc_retrieval task has
\* returned, and doc_reranking has not started before every doc_verification
\* task has returned and been merged: the verified documents it reads are the
\* outputs of all verification tasks, each entry as often as the tasks returned it.
C14_StagesWaitForAllTasks ==
    /\ pc \in {"doc_verification", "format_results", "done"} =>
          \A i \in 1..Len(retrieval_tasks) : retrieval_tasks[i].status = "returned"
    /\ pc \in {"format_results", "done"} =>
          /\ \A j \in 1..Len(verification_tasks) : verification_tasks[j].status = "returned"
          /\ \A j \in 1..Len(verification_tasks) :
                verification_tasks[j].update =
                    IF IsRelevant(verification_tasks[j].response)
                    THEN <<verification_tasks[j].doc_to_verify>> ELSE <<>>
          /\ \A doc \in Range(verified_documents) \cup Range(retrieved_documents) :
                Entries(verified_documents, doc) = UpdateEntries(verification_tasks, doc)

\* C14 witness: doc_reranking has run after two verification tasks, both of
\* which contributed a document, over the documents of two retrieval tasks.
C14_Witness ==
    /\ pc = "format_results"
    /\ Len(retrieval_tasks) = 2
    /\ Len(verification_tasks) = 2
    /\ \A j \in 1..2 : verification_tasks[j].update # <<>>
    /\ Len(verified_documents) = 2

\* the verified documents in the order the index order p gives them
Reordered(documents, p) == [k \in 1..Len(documents) |-> documents[p[k]]]

\* C15: without a reranking model, the final documents and the chunk statistics
\* are the same for every order in which the verifier outputs could have been
\* appended to the verified documents.
C15_BundleIndependentOfCompletionOrder ==
    (pc = "done" /\ NoModelOrNoCount) =>
        \A p \in IndexOrders(Len(verified_documents)) :
            LET verified == Reordered(verified_documents, p)
                final == DocRerankingUpdate(verified, verified).reranked_documents
                stats == CalculateSubQuestionRetrievalStats(verified, expanded_retrieval_results)
                bundle == expanded_retrieval_result.sub_question_retrieval_stats
            IN /\ Range(final) = Range(expanded_retrieval_result.all_documents)
               /\ stats.verified_count = bundle.verified_count
               /\ stats.rejected_count = bundle.rejected_count
               /\ Range(stats.verified_doc_chunk_ids) = Range(bundle.verified_doc_chunk_ids)
               /\ Range(stats.dismissed_doc_chunk_ids) = Range(bundle.dismissed_doc_chunk_ids)

VerificationKickedOff == pc \in {"doc_verification", "format_results", "done"}

\* C17: verification_kickoff does not fail, and it spawns one doc_verification
\* task per retrieved document, in order, each with the question of the unit of
\* work: the explicit question, or the search request's query when there is none.
C17_OneTaskPerDocumentWithTheQuestion ==
    /\ error # "KeyError"
    /\ VerificationKickedOff =>
          /\ Len(verification_tasks) = Len(retrieved_documents)
          /\ \A k \in 1..Len(verification_tasks) :
                /\ verification_tasks[k].doc_to_verify = retrieved_documents[k]
                /\ verification_tasks[k].question =
                      IF question.some THEN question.v ELSE search_request_query

\* the ChunkStats of the result bundle
BundleChunkStats == expanded_retrieval_result.sub_question_retrieval_stats

\* C18: in the ChunkStats of the bundle the verified average is 0.0 when no key
\* is counted verified, and the rejected average is None exactly when no key is
\* counted rejected.
C18_AveragesOfEmptyCounts ==
    pc = "done" =>
        /\ BundleChunkStats.verified_count = 0 => BundleChunkStats.verified_avg_scores = RatZero
        /\ BundleChunkStats.rejected_avg_scores.some <=> BundleChunkStats.rejected_count > 0

\* C18 witness: a bundle whose statistics count a verified key with a score above
\* zero and no rejected key, so the rejected average is None.
C18_Witness ==
    /\ pc = "done"
    /\ BundleChunkStats.verified_count = 1
    /\ BundleChunkStats.verified_avg_scores # RatZero
    /\ BundleChunkStats.rejected_count = 0
    /\ ~BundleChunkStats.rejected_avg_scores.some

\* C19: in the ChunkStats of the bundle no key is both verified and dismissed,
\* and rejected_count is the number of dismissed keys, none listed twice.
C19_DismissedKeysDisjointAndCounted ==
    pc = "done" =>
        /\ Range(BundleChunkStats.verified_doc_chunk_ids)
              \cap Range(BundleChunkStats.dismissed_doc_chunk_ids) = {}
        /\ BundleChunkStats.rejected_count = Len(BundleChunkStats.dismissed_doc_chunk_ids)
        /\ Cardinality(Range(BundleChunkStats.dismissed_doc_chunk_ids)) =
              Len(BundleChunkStats.dismissed_doc_chunk_ids)

\* C19 witness: a bundle whose statistics hold a verified key and a dismissed key.
C19_Witness ==
    /\ pc = "done"
    /\ BundleChunkStats.verified_count = 1
    /\ Len(BundleChunkStats.verified_doc_chunk_ids) = 1
    /\ Len(BundleChunkStats.dismissed_doc_chunk_ids) = 1

RECURSIVE EventCount(_)
\* the number of tool_response events of all tasks
EventCount(tasks) ==
    IF tasks = <<>> THEN 0 ELSE Len(Head(tasks).events) + EventCount(Tail(tasks))

\* the query has a character that is not white space
NonBlank(query) == \E k \in 1..Len(query) : query[k] \notin {" ", "\n"}

\* C20: a doc_retrieval task of a non-blank query has emitted one tool_response
\* event per backend response, in the backend's order, each tagged with the
\* level and question number of the unit, (0, 0) without a sub-question id; no
\* other tool_response event is emitted.
C20_OneToolResponseEventPerResponse ==
    /\ \A i \in 1..Len(retrieval_tasks) :
          (retrieval_tasks[i].status = "returned" /\ NonBlank(retrieval_tasks[i].query_to_retrieve)) =>
              /\ Len(retrieval_tasks[i].events) = Len(retrieval_tasks[i].responses)
              /\ \A k \in 1..Len(retrieval_tasks[i].events) :
                    /\ retrieval_tasks[i].events[k].name = "tool_response"
                    /\ retrieval_tasks[i].events[k].id = retrieval_tasks[i].responses[k].id
                    /\ retrieval_tasks[i].events[k].response = retrieval_tasks[i].responses[k].response
                    /\ retrieval_tasks[i].events[k].level = (IF sub_question_id.some THEN 1 ELSE 0)
                    /\ retrieval_tasks[i].events[k].level_question_nr =
                          (IF sub_question_id.some THEN 2 ELSE 0)
    /\ Len(tool_response_events) = EventCount(retrieval_tasks)
    /\ \A k \in 1..Len(tool_response_events) :
          \E i \in 1..Len(retrieval_tasks) : tool_response_events[k] \in Range(retrieval_tasks[i].events)

\* C20 witness: in a sub-question unit a task of a non-blank query got a summary
\* response with a section and a response of another kind, and emitted an event
\* for each.
C20_Witness ==
    /\ sub_question_id.some
    /\ \E i \in 1..Len(retrieval_tasks) :
          /\ retrieval_tasks[i].status = "returned"
          /\ NonBlank(retrieval_tasks[i].query_to_retrieve)
          /\ Len(retrieval_tasks[i].responses) = 2
          /\ retrieval_tasks[i].responses[1].response.top_sections # <<>>
          /\ Len(retrieval_tasks[i].events) = 2
          /\ retrieval_tasks[i].events[2].id = "section_relevance_list"

====
